---- MODULE Spec2Model ----
(***************************************************************************)
(* Water-treatment train (rapid mix -> flocculation -> sedimentation) of   *)
(* water_treatment_simulation.py as a state machine.                       *)
(*                                                                         *)
(* Numbers.  A Python/numpy float is modelled as a rational [n, d] in      *)
(* lowest terms with d > 0; d = 0 encodes the non-finite floats: 0/0 is    *)
(* NaN, 1/0 is +inf, -1/0 is -inf.  Arithmetic on rationals is exact and   *)
(* is used for the chemistry and the rapid mix.  The kernels, the ODE      *)
(* step, mean_size and the sedimentation stage are evaluated on floats     *)
(* [m, e] of four significant decimal digits (value m * 10^e).             *)
(*                                                                         *)
(* Two specifications.  Spec drives a WaterTreatmentSimulation through     *)
(* setup_system, run_simulation and direct calls of its parts.  GameSpec   *)
(* drives the WaterTreatmentGame of game_visualization.py: the buttons     *)
(* and sliders of its ControlPanel, the iterations of its main loop, its   *)
(* PlantDataLogger (plant_graphs.py) and the background threads that run   *)
(* run_pilot_experiment on the game's one PilotPlantSimulation             *)
(* (pilot_plant_simulation.py).  Every handler of the user-interface       *)
(* thread is one step; a background run takes three steps, at the points   *)
(* where it touches state shared with other threads.                       *)
(***************************************************************************)
EXTENDS Integers, Sequences, FiniteSets, TLC

----------------------------------------------------------------------------
(* Float arithmetic                                                        *)

Abs(i) == IF i < 0 THEN -i ELSE i

Sign(i) == IF i < 0 THEN -1 ELSE IF i > 0 THEN 1 ELSE 0

RECURSIVE Gcd(_, _)
Gcd(a, b) == IF b = 0 THEN a ELSE Gcd(b, a % b)

\* the float n/d, in lowest terms
R(n, d) ==
    IF d = 0 THEN [n |-> Sign(n), d |-> 0]
    ELSE LET g == Gcd(Abs(n), Abs(d))
         IN  [n |-> Sign(d) * (n \div g), d |-> Abs(d) \div g]

RInt(i) == [n |-> i, d |-> 1]

NaN == [n |-> 0, d |-> 0]

IsNaN(x) == x.d = 0 /\ x.n = 0

IsFinite(x) == x.d # 0

RNeg(x) == [n |-> -x.n, d |-> x.d]

\* a + b
RAdd(a, b) ==
    IF IsNaN(a) \/ IsNaN(b) THEN NaN
    ELSE IF a.d = 0 /\ b.d = 0 THEN (IF a.n = b.n THEN a ELSE NaN)
    ELSE IF a.d = 0 THEN a
    ELSE IF b.d = 0 THEN b
    ELSE LET g == Gcd(a.d, b.d)
         IN  R(a.n * (b.d \div g) + b.n * (a.d \div g), (a.d \div g) * b.d)

RSub(a, b) == RAdd(a, RNeg(b))

\* a * b
RMul(a, b) ==
    IF IsNaN(a) \/ IsNaN(b) THEN NaN
    ELSE IF a.d = 0 \/ b.d = 0 THEN R(Sign(a.n) * Sign(b.n), 0)
    ELSE LET g1 == Gcd(Abs(a.n), b.d)
             g2 == Gcd(Abs(b.n), a.d)
         IN  R((a.n \div g1) * (b.n \div g2), (a.d \div g2) * (b.d \div g1))

\* a / b with numpy's float64 rules: x/0 is +-inf, 0/0 is nan, no exception
RDiv(a, b) ==
    IF IsNaN(a) \/ IsNaN(b) THEN NaN
    ELSE IF b.d = 0 THEN (IF a.d = 0 THEN NaN ELSE RInt(0))
    ELSE IF b.n = 0 THEN R(Sign(a.n), 0)
    ELSE RMul(a, R(b.d, b.n))

\* a < b; every comparison with NaN is false
RLt(a, b) == ~IsNaN(a) /\ ~IsNaN(b) /\ RSub(a, b).n < 0

RLe(a, b) == ~IsNaN(a) /\ ~IsNaN(b) /\ (a = b \/ RLt(a, b))

\* Python's builtin max(a, b) and min(a, b): the first argument is kept
\* unless the second compares strictly greater (smaller)
PyMax(a, b) == IF RLt(a, b) THEN b ELSE a

PyMin(a, b) == IF RLt(b, a) THEN b ELSE a

\* np.minimum(a, b): NaN propagates
NpMinimum(a, b) == IF IsNaN(a) \/ IsNaN(b) THEN NaN ELSE IF RLt(b, a) THEN b ELSE a

----------------------------------------------------------------------------
(* Finite-precision evaluation.  A value m * 10^e with a four-digit        *)
(* mantissa (1000 <= |m| <= 9999, or m = 0): the precision to which the    *)
(* kernels, the ODE solver and the sedimentation stage are evaluated.      *)
(* e = 999 marks the non-finite values: m = 0 is NaN, m = 1 / -1 is        *)
(* +inf / -inf.                                                            *)

RECURSIVE Pow10(_)
Pow10(k) == IF k <= 0 THEN 1 ELSE 10 * Pow10(k - 1)

RECURSIVE FNorm(_, _)
FNorm(m, e) ==
    IF m = 0 THEN [m |-> 0, e |-> 0]
    ELSE IF Abs(m) >= 10000 THEN FNorm(Sign(m) * (Abs(m) \div 10), e + 1)
    ELSE IF Abs(m) < 1000 THEN FNorm(m * 10, e - 1)
    ELSE [m |-> m, e |-> e]

RECURSIVE FScale(_, _, _)
FScale(a, d, e) ==
    IF a \div d >= 10000
      THEN (IF d > 200000000 THEN FScale(a \div 10, d, e + 1) ELSE FScale(a, d * 10, e + 1))
    ELSE IF a \div d < 1000
      THEN (IF a > 200000000 THEN FScale(a, d \div 10, e - 1) ELSE FScale(a * 10, d, e - 1))
    ELSE [m |-> a \div d, e |-> e]

FNaN == [m |-> 0, e |-> 999]

FInf(sign) == [m |-> sign, e |-> 999]

FSpecial(a) == a.e = 999

\* a float to four significant digits (truncated)
FofR(x) ==
    IF x.d = 0 THEN FInf(x.n)
    ELSE IF x.n = 0 THEN [m |-> 0, e |-> 0]
    ELSE LET f == FScale(Abs(x.n), x.d, 0) IN [m |-> Sign(x.n) * f.m, e |-> f.e]

\* back to a rational; below 1e-9 the digits that do not fit are dropped
RofF(f) ==
    IF FSpecial(f) THEN [n |-> f.m, d |-> 0]
    ELSE IF f.e >= 0 THEN RInt(f.m * Pow10(f.e))
    ELSE IF f.e >= -9 THEN R(f.m, Pow10(-f.e))
    ELSE R(Sign(f.m) * (Abs(f.m) \div Pow10(-f.e - 9)), 1000000000)

FInt(i) == FNorm(i, 0)

\* a * b (inf * 0 is NaN)
FMul(a, b) ==
    IF a = FNaN \/ b = FNaN THEN FNaN
    ELSE IF FSpecial(a) \/ FSpecial(b) THEN FInf(Sign(a.m) * Sign(b.m))
    ELSE FNorm(a.m * b.m, a.e + b.e)

\* a / b with numpy's rules (x/0 is +-inf, 0/0 is NaN)
FDiv(a, b) ==
    IF a = FNaN \/ b = FNaN THEN FNaN
    ELSE IF FSpecial(b) THEN (IF FSpecial(a) THEN FNaN ELSE FInt(0))
    ELSE IF FSpecial(a) THEN FInf(a.m * (IF b.m < 0 THEN -1 ELSE 1))
    ELSE IF b.m = 0 THEN FInf(Sign(a.m))
    ELSE FNorm(Sign(a.m) * Sign(b.m) * ((Abs(a.m) * 100000) \div Abs(b.m)),
               a.e - b.e - 5)

\* a + b; a term more than five decimal orders below the other is absorbed
FAdd(a, b) ==
    IF a = FNaN \/ b = FNaN THEN FNaN
    ELSE IF FSpecial(a) /\ FSpecial(b) THEN (IF a = b THEN a ELSE FNaN)
    ELSE IF FSpecial(a) THEN a
    ELSE IF FSpecial(b) THEN b
    ELSE IF a.m = 0 THEN b
    ELSE IF b.m = 0 THEN a
    ELSE LET hi == IF a.e >= b.e THEN a ELSE b
             lo == IF a.e >= b.e THEN b ELSE a
         IN  IF hi.e - lo.e > 5 THEN hi
             ELSE FNorm(hi.m * Pow10(hi.e - lo.e) + lo.m, lo.e)

FNeg(a) == [m |-> -a.m, e |-> a.e]

FSub(a, b) == FAdd(a, FNeg(b))

\* a < b; every comparison with NaN is false
FLt(a, b) == a # FNaN /\ b # FNaN /\ FSub(a, b).m < 0

\* Python's builtin max(a, b) and min(a, b)
FPyMax(a, b) == IF FLt(a, b) THEN b ELSE a

FPyMin(a, b) == IF FLt(b, a) THEN b ELSE a

\* np.minimum(a, b): NaN propagates
FNpMinimum(a, b) == IF a = FNaN \/ b = FNaN THEN FNaN ELSE IF FLt(b, a) THEN b ELSE a

RECURSIVE Isqrt(_)
Isqrt(n) ==
    IF n < 2 THEN n
    ELSE LET r == 2 * Isqrt(n \div 4) IN IF (r + 1) * (r + 1) <= n THEN r + 1 ELSE r

RECURSIVE Icbrt(_)
Icbrt(n) ==
    IF n < 8 THEN (IF n >= 1 THEN 1 ELSE 0)
    ELSE LET r == 2 * Icbrt(n \div 8) IN IF (r + 1) * (r + 1) * (r + 1) <= n THEN r + 1 ELSE r

\* np.sqrt: NaN below zero
FSqrt(a) ==
    IF a.m < 0 THEN FNaN
    ELSE IF FSpecial(a) \/ a.m = 0 THEN a
    ELSE IF a.e % 2 = 0 THEN FNorm(Isqrt(a.m * 10000), (a.e - 4) \div 2)
    ELSE FNorm(Isqrt(a.m * 100000), (a.e - 5) \div 2)

\* a ** (1/3) for a >= 0: an integer cube root refined by one Newton step
FCbrt(a) ==
    IF a.m < 0 THEN FNaN
    ELSE IF FSpecial(a) \/ a.m = 0 THEN a
    ELSE LET k  == (a.e - 3) % 3
             r0 == FNorm(Icbrt(a.m * Pow10(3 + k)), (a.e - 3 - k) \div 3)
         IN  FDiv(FAdd(FMul(FInt(2), r0), FDiv(a, FMul(r0, r0))), FInt(3))

----------------------------------------------------------------------------
(* numpy arrays: sequences of floats                                       *)

RECURSIVE SumSeq(_)
SumSeq(s) == IF s = <<>> THEN RInt(0) ELSE RAdd(Head(s), SumSeq(Tail(s)))

\* array * scalar, array / scalar, array * array (elementwise)
ScaleSeq(s, c) == [i \in 1..Len(s) |-> RMul(s[i], c)]

DivSeq(s, c) == [i \in 1..Len(s) |-> RDiv(s[i], c)]

MulSeq(s, t) == [i \in 1..Len(s) |-> RMul(s[i], t[i])]

\* np.trapz(y, x) = sum of (x[i+1] - x[i]) * (y[i+1] + y[i]) / 2
Trapz(y, x) ==
    SumSeq([i \in 1..(Len(x) - 1) |->
              RDiv(RMul(RSub(x[i + 1], x[i]), RAdd(y[i + 1], y[i])), RInt(2))])

\* an array of rationals as finite-precision values
FSeq(s) == [i \in 1..Len(s) |-> FofR(s[i])]

RECURSIVE FSumFrom(_, _, _)
FSumFrom(s, i, acc) == IF i > Len(s) THEN acc ELSE FSumFrom(s, i + 1, FAdd(acc, s[i]))

\* acc = 0; for each term: acc += term
FSum(s) == FSumFrom(s, 1, FInt(0))

\* np.trapz(y, x) in finite precision
FTrapz(y, x) ==
    FSum([i \in 1..(Len(x) - 1) |->
            FDiv(FMul(FSub(x[i + 1], x[i]), FAdd(y[i + 1], y[i])), FInt(2))])

----------------------------------------------------------------------------
(* Bounds of the model and the inputs the environment may supply           *)

\* number of size bins (the source uses np.logspace(-1, 2, 50))
NBins == 3

\* largest flocculation chamber count configured
MaxChambers == 2

\* calls made on one simulation object after setup
MaxCalls == 2

\* pH values given to setup_system
PHs == {R(15, 2), R(19, 2)}

\* alkalinities given to setup_system (mg/L CaCO3)
Alkalinities == {RInt(20), RInt(120)}

\* initial_solids given to setup_system (mg/L)
Solids == {RInt(0), RInt(50)}

\* floc_chambers given to setup_system
ChamberCounts == (-1)..MaxChambers

\* coagulant doses (g/L): negative, zero, the baseline 0.02, a saturating 5
Doses == {R(-1, 100), RInt(0), R(1, 50), RInt(5)}

\* concentration vectors handed to Sedimentation.process directly: all zero, rising
TestConcentrations == {[i \in 1..NBins |-> RInt(0)], [i \in 1..NBins |-> RInt(i)]}

\* floc_density values handed to Sedimentation.process directly (kg/m3)
FlocDensities == {RInt(900), RInt(1200)}

\* velocity gradients G handed to population_balance directly (1/s); at G = 0
\* shear_rate is 0, so the breakage rate is zero and aggregation is Brownian only
Gradients == {0, 50}

\* what solve_ivp can return: success; status -1 after only t_eval[0] was
\* reached (y has one column); status -1 in the first step (y is the empty list)
SolverOutcomes == {"converged", "failed_partial", "failed_first_step"}

----------------------------------------------------------------------------
(* Program state                                                           *)

VARIABLES
    HAS_PYEQL,            \* module flag: pyEQL could be imported
    pc,                   \* "new", "idle", or the step run_simulation is at
    water_props,          \* <<the WaterProperties object>>, <<>> while None;
                          \* water_after_mix is this same object
    heap,                 \* the ParticleDistribution objects: "self.particles" and
                          \* the new_particles of the latest RapidMixing.process
    flocculation,         \* <<the Flocculation object>>, <<>> while None
    sedimentation,        \* <<the Sedimentation object>>, <<>> while None
    results,              \* self.results: <<>> for {}, else <<the record>>
    coagulant_dose,       \* run_simulation's argument
    particles_after_mix,  \* run_simulation's local: a reference into heap
    particles_after_floc, \* run_simulation's local: a reference into heap
    floc_results,         \* the list Flocculation.process builds and returns
    current_particles,    \* Flocculation.process's local: a reference into heap
    chamber,              \* Flocculation.process's loop variable
    sed_results,          \* the record the latest Sedimentation.process returned
    dndt_returned,        \* the array the latest direct population_balance call returned
    raised,               \* the exception that ended the latest call, "" if none
    calls,                \* calls made on the object since setup
    trace,                \* history: the stage calls of the latest run_simulation
    solver,               \* history: solve_ivp's outcome for each chamber of the latest run
    last,                 \* history: the latest call, its arguments and the state it found
    \* WaterTreatmentGame (game_visualization.py): () for each of these until a
    \* game is constructed
    control_panel,        \* the ControlPanel's fields
    simulation_running,   \* self.simulation_running
    simulation_results,   \* self.simulation_results: <<>> for None, else <<the record>>
    simulation_progress,  \* self.simulation_progress
    simulation_time,      \* self.simulation_time, seconds
    game_particles,       \* len(self.particles)
    water_state,          \* self.water_state: tank |-> [turbidity, pH, particles_removed]
    tanks,                \* tank |-> [efficiency, current_turbidity]
    data_logger,          \* the PlantDataLogger self.data_logger refers to
    pilot_sim,            \* the PilotPlantSimulation shared by every background run
    threads,              \* the background threads started so far, in start order
    now,                  \* time.time(), seconds
    handled,              \* history: how many button and slider events were handled
    resets,               \* history: how many reset_simulation were handled
    published_by          \* history: the thread that assigned simulation_results, 0 if none

vars == <<control_panel, simulation_running, simulation_results, simulation_progress,
          simulation_time, game_particles, water_state, tanks, data_logger, pilot_sim,
          threads, now, handled, resets, published_by,
          HAS_PYEQL, pc, water_props, heap, flocculation, sedimentation, results,
          coagulant_dose, particles_after_mix, particles_after_floc, floc_results,
          current_particles, chamber, sed_results, dndt_returned, raised, calls, trace,
          solver, last>>

\* the variables of the simulation core
core_vars == <<HAS_PYEQL, pc, water_props, heap, flocculation, sedimentation, results,
               coagulant_dose, particles_after_mix, particles_after_floc, floc_results,
               current_particles, chamber, sed_results, dndt_returned, raised, calls,
               trace, solver, last>>

\* the variables of the game
game_vars == <<control_panel, simulation_running, simulation_results,
               simulation_progress, simulation_time, game_particles, water_state, tanks,
               data_logger, pilot_sim, threads, now, handled, resets, published_by>>

----------------------------------------------------------------------------
(* WaterProperties                                                         *)

\* update_properties without thermo, at the temperatures the model uses:
\* 1000 - 0.0178 * (T - 4)**1.9 and 2.414e-5 * 10**(247.8 / (T + 133.15))
update_properties(temperature) ==
    [density   |-> IF temperature = 20 THEN R(19931, 20) ELSE RInt(1000),
     viscosity |-> IF temperature = 20 THEN R(1002, 1000000) ELSE R(1547, 1000000)]

WaterProperties(temperature, pH, alkalinity, turbidity) ==
    [temperature |-> temperature, pH |-> pH, alkalinity |-> alkalinity,
     turbidity |-> turbidity,
     density |-> update_properties(temperature).density,
     viscosity |-> update_properties(temperature).viscosity]

\* the alkalinity consumed by a dose, mg/L CaCO3
alkalinity_consumed(al2so4_conc) ==
    LET molar_conc == RDiv(al2so4_conc, R(34215, 100))
    IN  RMul(RMul(RMul(molar_conc, RInt(6)), R(10009, 100)), RInt(1000))

\* an add_coagulant whose alkalinity is not floored at zero
add_coagulant_unfloored(w, al2so4_conc) ==
    [w EXCEPT !.alkalinity = RSub(w.alkalinity, alkalinity_consumed(al2so4_conc))]

\* an add_coagulant that also adds the dose to the water density
add_coagulant_densifying(w, al2so4_conc) ==
    [w EXCEPT !.alkalinity = PyMax(RInt(0), RSub(w.alkalinity,
                                                 alkalinity_consumed(al2so4_conc))),
              !.density = RAdd(w.density, al2so4_conc)]

\* add_coagulant: the object after the call
add_coagulant(w, al2so4_conc) ==
    LET consumed == alkalinity_consumed(al2so4_conc)
        buffer_capacity == R(15, 100)
        delta_pH == RNeg(RMul(RDiv(consumed, RInt(100)), buffer_capacity))
    IN  [w EXCEPT
           !.alkalinity = PyMax(RInt(0), RSub(w.alkalinity, consumed)),
           !.pH = IF HAS_PYEQL THEN w.pH
                  ELSE IF RLt(RInt(0), consumed)
                         THEN PyMax(RInt(4), PyMin(RInt(9), RAdd(w.pH, delta_pH)))
                         ELSE w.pH]

----------------------------------------------------------------------------
(* ParticleDistribution                                                    *)

\* bin centres: log-spaced, 10, 30, 90, ... micrometres
RECURSIVE Pow3(_)
Pow3(k) == IF k <= 0 THEN 1 ELSE 3 * Pow3(k - 1)

DefaultSizes == [i \in 1..NBins |-> RInt(10 * Pow3(i - 1))]

\* _lognormal_distribution(x, 2.0, 0.8) at the bin centres, in units of 1e-4
\* (0.0464 at 10, 0.0036 at 30, under 0.0001 from 90 on)
lognormal_distribution == [i \in 1..NBins |-> RInt(IF i = 1 THEN 464 ELSE IF i = 2 THEN 36 ELSE 1)]

\* normalize: the concentrations after the call
normalize(sizes, concentrations, total_concentration) ==
    LET current_total == Trapz(concentrations, sizes)
    IN  DivSeq(ScaleSeq(concentrations, total_concentration), current_total)

\* mean_size
mean_size(d) ==
    LET sizes == FSeq(d.sizes)
        concentrations == FSeq(d.concentrations)
        weighted == [i \in 1..Len(sizes) |-> FMul(sizes[i], concentrations[i])]
    IN  RofF(FDiv(FTrapz(weighted, sizes), FTrapz(concentrations, sizes)))

\* ParticleDistribution(): the default object
ParticleDistribution == [sizes |-> DefaultSizes, concentrations |-> lognormal_distribution]

----------------------------------------------------------------------------
(* RapidMixing                                                             *)

\* a charge neutralization that does not saturate
charge_neutralization_unsaturated(dose) == RDiv(dose, R(1, 20))

\* charge_neutralization = min(1.0, coagulant_dose / 0.05)
charge_neutralization(dose) == PyMin(RInt(1), RDiv(dose, R(1, 20)))

\* RapidMixing.process: the water object after the call and the new distribution
rapid_mix_process(w, particles, dose) ==
    LET sizes == ScaleSeq(particles.sizes,
                          RAdd(RInt(1), RMul(R(1, 10), charge_neutralization(dose))))
    IN  [water |-> add_coagulant(w, dose),
         new_particles |->
            [sizes |-> sizes,
             concentrations |->
                normalize(sizes, particles.concentrations,
                          Trapz(particles.concentrations, particles.sizes))]]

----------------------------------------------------------------------------
(* Flocculation                                                            *)

\* a Flocculation whose chambers each take the whole flocculation time
Flocculation_undivided(chambers, total_volume, G_avg, total_time) ==
    [chambers |-> chambers, total_volume |-> total_volume, G_avg |-> G_avg,
     total_time |-> total_time,
     chamber_volume |-> R(total_volume, chambers),
     chamber_time |-> RInt(total_time)]

\* Flocculation.__init__; chambers = 0 raises ZeroDivisionError instead
Flocculation(chambers, total_volume, G_avg, total_time) ==
    [chambers |-> chambers, total_volume |-> total_volume, G_avg |-> G_avg,
     total_time |-> total_time,
     chamber_volume |-> R(total_volume, chambers),
     chamber_time |-> R(total_time, chambers)]

\* sizes[i] * 1e-6
Metres(size) == FMul(size, FNorm(1, -6))

\* coagulation_kernel: Brownian (Smoluchowski) plus turbulent (Saffman-Turner)
coagulation_kernel(di, dj, G, temperature, viscosity) ==
    LET kB == FNorm(138, -25)
        T == FAdd(FInt(temperature), FNorm(27315, -2))
        rho == FInt(1000)
        K_brown == FDiv(FMul(FDiv(FMul(FMul(FInt(2), kB), T), FMul(FInt(3), viscosity)),
                             FMul(FAdd(di, dj), FAdd(di, dj))),
                        FMul(di, dj))
        epsilon == FDiv(FMul(FMul(G, G), viscosity), rho)
        nu == FDiv(viscosity, rho)
        shear_rate == FSqrt(FDiv(epsilon, nu))
        alpha == FNorm(2, -1)
        K_turb == FMul(FMul(alpha, shear_rate), FMul(FMul(FAdd(di, dj), FAdd(di, dj)), FAdd(di, dj)))
    IN  FAdd(K_brown, K_turb)

\* breakage_kernel: C_break * shear_rate * d**(2/3)
breakage_kernel(d, G, density_floc, viscosity, density_water) ==
    LET epsilon == FDiv(FMul(FMul(G, G), viscosity), density_water)
        nu == FDiv(viscosity, density_water)
        C_break == FNorm(1, -5)
        shear_rate == FSqrt(FDiv(epsilon, nu))
    IN  FMul(FMul(C_break, shear_rate), FCbrt(FMul(d, d)))

\* population_balance: dndt for the concentrations n (bins are 1..N here, 0..N-1 in the source)
population_balance(n, sizes, G, w) ==
    LET N == Len(sizes)
        visc == FofR(w.viscosity)
        K(i, j) == coagulation_kernel(Metres(sizes[i]), Metres(sizes[j]), G, w.temperature, visc)
        S(i) == breakage_kernel(Metres(sizes[i]), G, FInt(1200), visc, FofR(w.density))
        birth(i) == FSum([j \in 1..(i - 1) |->
                            FMul(FMul(FMul(FNorm(5, -1), K(j, i - j)), n[j]), n[i - j])])
        death_agg(i) == FSum([j \in 1..N |-> FMul(FMul(K(i, j), n[i]), n[j])])
        death_break(i) == FMul(S(i), n[i])
        birth_break(i) == FSum([k \in 1..(N - i) |->
                                  FMul(FMul(FDiv(FInt(2), FInt(k + 1)), S(i + k)), n[i + k])])
    IN  [i \in 1..N |->
           FAdd(FSub(FSub(birth(i), death_agg(i)), death_break(i)), birth_break(i))]

\* solve_ivp(..., [0, chamber_time], y0, method='RK45') when it converges:
\* the state at chamber_time, advanced from y0 along population_balance
integrate(y0, sizes, G, w, chamber_time) ==
    LET dndt == population_balance(FSeq(y0), FSeq(sizes), G, w)
    IN  [i \in 1..Len(y0) |->
           RofF(FAdd(FofR(y0[i]), FMul(FofR(chamber_time), dndt[i])))]

----------------------------------------------------------------------------
(* Sedimentation                                                           *)

\* Sedimentation.__init__
Sedimentation(area, height, overflow_rate) ==
    [area |-> area, height |-> height, overflow_rate |-> overflow_rate,
     residence_time |-> RDiv(RInt(height), RDiv(RInt(overflow_rate), RInt(3600)))]

\* settling_velocity: Stokes, with the Schiller-Naumann drag above Re = 0.1 (m/s)
settling_velocity(diameter, density_particle, w) ==
    LET d == Metres(FofR(diameter))
        rho_p == FofR(density_particle)
        rho_w == FofR(w.density)
        mu == FofR(w.viscosity)
        g == FNorm(981, -2)
        vs_stokes == FDiv(FMul(FMul(g, FMul(d, d)), FSub(rho_p, rho_w)), FMul(FInt(18), mu))
        Re == FDiv(FMul(FMul(rho_w, vs_stokes), d), mu)
        Cd == FAdd(FAdd(FDiv(FInt(24), Re), FDiv(FInt(3), FSqrt(Re))), FNorm(34, -2))
    IN  IF FLt(FNorm(1, -1), Re)
          THEN FSqrt(FDiv(FMul(FMul(FMul(FInt(4), g), d), FSub(rho_p, rho_w)),
                          FMul(FMul(FInt(3), Cd), rho_w)))
          ELSE vs_stokes

\* x ** 4.65 for 0 < x <= 1, as x**4 * x**(1/2) * x**(1/8) * x**(1/32)
Pow465(x) ==
    LET r2 == FSqrt(x)
        r8 == FSqrt(FSqrt(r2))
        r32 == FSqrt(FSqrt(r8))
    IN  FMul(FMul(FMul(FMul(FMul(x, x), FMul(x, x)), r2), r8), r32)

\* phi = min(0.6, max(0.0, concentration / 1e6 / density_particle))
volume_fraction(concentration, density_particle) ==
    LET conc_kg_m3 == FDiv(concentration, FNorm(1, 6))
        phi == FDiv(conc_kg_m3, density_particle)
    IN  FPyMin(FNorm(6, -1), FPyMax(FInt(0), phi))

\* hindered_settling (Richardson-Zaki): vs0 * (1 - phi)**4.65
hindered_settling(vs0, concentration, density_particle) ==
    FMul(vs0, Pow465(FSub(FInt(1), volume_fraction(concentration, density_particle))))

\* an efficiency taken as (final_total - initial_total) / initial_total * 100
overall_efficiency_reversed(initial_total, final_total) ==
    FMul(FDiv(FSub(final_total, initial_total), initial_total), FInt(100))

\* overall_efficiency = (initial_total - final_total) / initial_total * 100
overall_efficiency(initial_total, final_total) ==
    FMul(FDiv(FSub(initial_total, final_total), initial_total), FInt(100))

\* Sedimentation.process: the record it returns
sedimentation_process(sed, w, particles, floc_density) ==
    LET N == Len(particles.sizes)
        sizes == FSeq(particles.sizes)
        concentrations == FSeq(particles.concentrations)
        total_conc == FTrapz(concentrations, sizes)
        vs_hindered == [i \in 1..N |->
            hindered_settling(settling_velocity(particles.sizes[i], floc_density, w),
                              total_conc, FofR(floc_density))]
        removal_efficiency == [i \in 1..N |->
            FNpMinimum(FInt(1),
                       FDiv(FMul(vs_hindered[i], FofR(sed.residence_time)),
                            FInt(sed.height)))]
        effluent_conc == [i \in 1..N |->
            FMul(concentrations[i], FSub(FInt(1), removal_efficiency[i]))]
        initial_total == FTrapz(concentrations, sizes)
        final_total == FTrapz(effluent_conc, sizes)
    IN  [effluent_concentration |-> RofF(final_total),
         removal_efficiency |-> RofF(overall_efficiency(initial_total, final_total)),
         size_distribution |-> [i \in 1..N |-> RofF(effluent_conc[i])],
         settling_velocities |-> [i \in 1..N |-> RofF(vs_hindered[i])]]

----------------------------------------------------------------------------
(* WaterTreatmentSimulation                                                *)

NoDistribution == [sizes |-> <<>>, concentrations |-> <<>>]

NoCall == [op |-> "none", dose |-> RInt(0), water |-> <<>>,
           particles |-> NoDistribution, floc_density |-> RInt(0), G |-> 0]

\* no WaterTreatmentGame has been constructed
NoGame ==
    /\ control_panel = <<>>
    /\ simulation_running = <<>>
    /\ simulation_results = <<>>
    /\ simulation_progress = <<>>
    /\ simulation_time = <<>>
    /\ game_particles = <<>>
    /\ water_state = <<>>
    /\ tanks = <<>>
    /\ data_logger = <<>>
    /\ pilot_sim = <<>>
    /\ threads = <<>>
    /\ now = <<>>
    /\ handled = <<>>
    /\ resets = <<>>
    /\ published_by = <<>>

\* WaterTreatmentSimulation.__init__: nothing configured, no call made
NewSimulation ==
    /\ pc = "new"
    /\ water_props = <<>>
    /\ heap = [r \in {"self.particles", "new_particles"} |-> NoDistribution]
    /\ flocculation = <<>>
    /\ sedimentation = <<>>
    /\ results = <<>>
    /\ coagulant_dose = RInt(0)
    /\ particles_after_mix = "None"
    /\ particles_after_floc = "None"
    /\ floc_results = <<>>
    /\ current_particles = "None"
    /\ chamber = 0
    /\ sed_results = <<>>
    /\ raised = ""
    /\ calls = 0
    /\ trace = <<>>
    /\ solver = <<>>
    /\ last = NoCall
    /\ dndt_returned = <<>>

Init ==
    /\ NoGame
    /\ HAS_PYEQL \in BOOLEAN
    /\ NewSimulation

\* setup_system(pH=, alkalinity=, initial_solids=, floc_chambers=, ...) with the
\* test's values for the rest; floc_chambers = 0 raises ZeroDivisionError in
\* Flocculation.__init__ and leaves flocculation and sedimentation unset
SetupSystem ==
    /\ pc = "new"
    /\ \E pH \in PHs, alkalinity \in Alkalinities, initial_solids \in Solids,
          floc_chambers \in ChamberCounts :
         /\ water_props' = <<WaterProperties(20, pH, alkalinity, RInt(50))>>
         /\ heap' = [heap EXCEPT !["self.particles"] =
                        [sizes |-> ParticleDistribution.sizes,
                         concentrations |->
                            normalize(ParticleDistribution.sizes,
                                      ParticleDistribution.concentrations,
                                      initial_solids)]]
         /\ IF floc_chambers = 0
              THEN /\ raised' = "ZeroDivisionError"
                   /\ UNCHANGED <<flocculation, sedimentation>>
              ELSE /\ raised' = ""
                   /\ flocculation' = <<Flocculation(floc_chambers, 200, 50, 1800)>>
                   /\ sedimentation' = <<Sedimentation(100, 3, 10)>>
    /\ pc' = "idle"
    /\ UNCHANGED <<game_vars, HAS_PYEQL, dndt_returned, results, coagulant_dose, particles_after_mix,
                   particles_after_floc, floc_results, current_particles, chamber,
                   sed_results, calls, trace, solver, last>>

\* the caller invokes run_simulation(coagulant_dose)
RunSimulation ==
    /\ pc = "idle"
    /\ calls < MaxCalls
    /\ \E dose \in Doses : coagulant_dose' = dose
    /\ pc' = "rapid_mix"
    /\ calls' = calls + 1
    /\ raised' = ""
    /\ trace' = <<>>
    /\ solver' = <<>>
    /\ particles_after_mix' = "None"
    /\ particles_after_floc' = "None"
    /\ floc_results' = <<>>
    /\ current_particles' = "None"
    /\ chamber' = 0
    /\ sed_results' = <<>>
    /\ last' = [NoCall EXCEPT !.op = "run_simulation", !.dose = coagulant_dose',
                              !.water = water_props]
    /\ UNCHANGED <<game_vars, HAS_PYEQL, dndt_returned, water_props, heap, flocculation, sedimentation,
                   results>>

\* a run_simulation that catches a stage's exception and goes on to sedimentation
AfterRaise_continue == "sedimentation"

\* where run_simulation is after a stage raised: it has no try/except, the
\* exception leaves the method and the call is over
AfterRaise == "idle"

\* a record whose final_efficiency adds the effluent concentration as a term
final_efficiency_with_term(sed) ==
    RAdd(sed.removal_efficiency, sed.effluent_concentration)

\* 'final_efficiency': sed_results['removal_efficiency']
final_efficiency(sed) == sed.removal_efficiency

\* a rapid mix that writes its result into the distribution it was given
NewParticles_in_place == "self.particles"

\* the object RapidMixing.process creates with ParticleDistribution() and returns
NewParticles == "new_particles"

\* the distribution run_simulation hands to rapid_mix.process
RapidMixArgument == "self.particles"

\* stage 1: water_after_mix, particles_after_mix = self.rapid_mix.process(...)
RapidMixStage ==
    /\ pc = "rapid_mix"
    /\ \E out \in {rapid_mix_process(water_props[1], heap[RapidMixArgument],
                                      coagulant_dose)} :
         /\ water_props' = <<out.water>>
         /\ heap' = [heap EXCEPT ![NewParticles] = out.new_particles]
    /\ particles_after_mix' = NewParticles
    /\ trace' = Append(trace, [stage |-> "rapid_mix", input |-> RapidMixArgument,
                               output |-> NewParticles])
    /\ pc' = "flocculation"
    /\ UNCHANGED <<game_vars, HAS_PYEQL, dndt_returned, flocculation, sedimentation, results, coagulant_dose,
                   particles_after_floc, floc_results, current_particles, chamber,
                   sed_results, raised, calls, solver, last>>

\* a run_simulation that hands the initial distribution to flocculation
FlocculationArgument_initial == "self.particles"

\* the distribution run_simulation hands to flocculation.process
FlocculationArgument == particles_after_mix

\* stage 2 is called: Flocculation.process starts with results = [] and
\* current_particles = particles; on an object whose setup failed,
\* self.flocculation is None and the call raises AttributeError
FlocculationCall ==
    /\ pc = "flocculation"
    /\ IF flocculation = <<>>
         THEN /\ raised' = "AttributeError"
              /\ pc' = AfterRaise
              /\ UNCHANGED <<current_particles, trace>>
         ELSE /\ current_particles' = FlocculationArgument
              /\ trace' = Append(trace, [stage |-> "flocculation",
                                         input |-> FlocculationArgument,
                                         output |-> "None"])
              /\ pc' = "chamber"
              /\ UNCHANGED raised
    /\ floc_results' = <<>>
    /\ chamber' = 0
    /\ UNCHANGED <<game_vars, HAS_PYEQL, dndt_returned, water_props, heap, flocculation, sedimentation,
                   results,
                   coagulant_dose, particles_after_mix, particles_after_floc,
                   sed_results, calls, solver, last>>

\* sol.y, one entry per column (t_eval is modelled by its end points 0 and chamber_time)
sol_y(outcome, y0, sizes, G, w, chamber_time) ==
    IF outcome = "converged" THEN <<y0, integrate(y0, sizes, G, w, chamber_time)>>
    ELSE IF outcome = "failed_partial" THEN <<y0>>
    ELSE <<>>

\* the record Flocculation.process appends for a chamber
chamber_record(k, y, sizes, chamber_time) ==
    [chamber |-> k + 1,
     time |-> <<RInt(0), chamber_time>>,
     distribution |-> y,
     mean_size |-> [c \in 1..Len(y) |->
                      mean_size([sizes |-> sizes, concentrations |-> y[c]])]]

\* a loop that integrates every chamber from the initial distribution
ChamberStart_initial == heap["self.particles"].concentrations

\* the concentrations a chamber's integration starts from
ChamberStart == heap[current_particles].concentrations

\* one pass of the loop of Flocculation.process: solve, take sol.y[:, -1], append
\* the record; indexing the empty list raises TypeError
FlocculationChamber ==
    /\ pc = "chamber"
    /\ chamber < flocculation[1].chambers
    /\ \E outcome \in SolverOutcomes :
         LET floc == flocculation[1]
             sizes == heap[current_particles].sizes
         IN  \E y \in {sol_y(outcome, ChamberStart, sizes, FInt(floc.G_avg),
                              water_props[1], floc.chamber_time)} :
             /\ solver' = Append(solver, outcome)
             /\ IF y = <<>>
                  THEN /\ raised' = "TypeError"
                       /\ pc' = AfterRaise
                       /\ UNCHANGED <<heap, floc_results, chamber>>
                  ELSE /\ heap' = [heap EXCEPT ![current_particles].concentrations = y[Len(y)]]
                       /\ floc_results' =
                            Append(floc_results,
                                   chamber_record(chamber, y, sizes, floc.chamber_time))
                       /\ chamber' = chamber + 1
                       /\ UNCHANGED <<raised, pc>>
    /\ UNCHANGED <<game_vars, HAS_PYEQL, dndt_returned, water_props, flocculation, sedimentation, results,
                   coagulant_dose, particles_after_mix, particles_after_floc,
                   current_particles, sed_results, calls, trace, last>>

\* the loop is exhausted: return current_particles, results
FlocculationReturn ==
    /\ pc = "chamber"
    /\ chamber >= flocculation[1].chambers
    /\ particles_after_floc' = current_particles
    /\ trace' = [trace EXCEPT ![Len(trace)].output = current_particles]
    /\ pc' = "sedimentation"
    /\ UNCHANGED <<game_vars, HAS_PYEQL, dndt_returned, water_props, heap, flocculation, sedimentation,
                   results,
                   coagulant_dose, particles_after_mix, floc_results, current_particles,
                   chamber, sed_results, raised, calls, solver, last>>

\* the distribution run_simulation hands to sedimentation.process
SedimentationArgument == particles_after_floc

\* stage 3: sed_results = self.sedimentation.process(water_after_mix, particles_after_floc)
SedimentationStage ==
    /\ pc = "sedimentation"
    /\ sed_results' = <<sedimentation_process(sedimentation[1], water_props[1],
                                              heap[SedimentationArgument], RInt(1200))>>
    /\ trace' = Append(trace, [stage |-> "sedimentation", input |-> SedimentationArgument,
                               output |-> "None"])
    /\ last' = [last EXCEPT !.particles = heap[SedimentationArgument],
                            !.floc_density = RInt(1200)]
    /\ pc' = "compile"
    /\ UNCHANGED <<game_vars, HAS_PYEQL, dndt_returned, water_props, heap, flocculation, sedimentation,
                   results,
                   coagulant_dose, particles_after_mix, particles_after_floc,
                   floc_results, current_particles, chamber, raised, calls, solver>>

\* self.results = {...}; return self.results
CompileResults ==
    /\ pc = "compile"
    /\ results' =
         <<[initial |->
              [pH |-> water_props[1].pH,
               alkalinity |-> water_props[1].alkalinity,
               turbidity |-> water_props[1].turbidity,
               mean_particle_size |-> mean_size(heap["self.particles"])],
            after_coagulation |->
              [pH |-> water_props[1].pH,
               alkalinity |-> water_props[1].alkalinity,
               mean_particle_size |-> mean_size(heap[particles_after_mix])],
            flocculation |-> floc_results,
            sedimentation |-> sed_results[1],
            final_efficiency |-> final_efficiency(sed_results[1])]>>
    /\ pc' = "idle"
    /\ UNCHANGED <<game_vars, HAS_PYEQL, dndt_returned, water_props, heap, flocculation, sedimentation,
                   coagulant_dose, particles_after_mix, particles_after_floc,
                   floc_results, current_particles, chamber, sed_results, raised, calls,
                   trace, solver, last>>

\* the caller invokes water_props.add_coagulant(dose, volume) itself
AddCoagulantCall ==
    /\ pc = "idle"
    /\ calls < MaxCalls
    /\ \E dose \in Doses :
         /\ water_props' = <<add_coagulant(water_props[1], dose)>>
         /\ last' = [NoCall EXCEPT !.op = "add_coagulant", !.dose = dose,
                                   !.water = water_props]
    /\ calls' = calls + 1
    /\ raised' = ""
    /\ UNCHANGED <<game_vars, HAS_PYEQL, dndt_returned, pc, heap, flocculation, sedimentation, results,
                   coagulant_dose, particles_after_mix, particles_after_floc,
                   floc_results, current_particles, chamber, sed_results, trace, solver>>

\* the caller invokes sedimentation.process(water_props, particles, floc_density) itself
SedimentationCall ==
    /\ pc = "idle"
    /\ calls < MaxCalls
    /\ sedimentation # <<>>
    /\ \E concentrations \in TestConcentrations, floc_density \in FlocDensities :
         LET particles == [sizes |-> DefaultSizes, concentrations |-> concentrations]
         IN  /\ sed_results' = <<sedimentation_process(sedimentation[1], water_props[1],
                                                       particles, floc_density)>>
             /\ last' = [NoCall EXCEPT !.op = "sedimentation.process",
                                       !.water = water_props,
                                       !.particles = particles,
                                       !.floc_density = floc_density]
    /\ calls' = calls + 1
    /\ raised' = ""
    /\ UNCHANGED <<game_vars, HAS_PYEQL, dndt_returned, pc, water_props, heap, flocculation,
                   sedimentation, results,
                   coagulant_dose, particles_after_mix, particles_after_floc,
                   floc_results, current_particles, chamber, trace, solver>>

\* the caller invokes flocculation.population_balance(t, n, sizes, G, water_props) itself
PopulationBalanceCall ==
    /\ pc = "idle"
    /\ calls < MaxCalls
    /\ flocculation # <<>>
    /\ \E n \in TestConcentrations, G \in Gradients :
         /\ dndt_returned' = population_balance(FSeq(n), FSeq(DefaultSizes), FInt(G),
                                                water_props[1])
         /\ last' = [NoCall EXCEPT !.op = "population_balance",
                                   !.water = water_props,
                                   !.particles = [sizes |-> DefaultSizes,
                                                  concentrations |-> n],
                                   !.G = G]
    /\ calls' = calls + 1
    /\ raised' = ""
    /\ UNCHANGED <<game_vars, HAS_PYEQL, pc, water_props, heap, flocculation, sedimentation, results,
                   coagulant_dose, particles_after_mix, particles_after_floc,
                   floc_results, current_particles, chamber, sed_results, trace, solver>>

Next ==
    \/ SetupSystem
    \/ RunSimulation
    \/ RapidMixStage
    \/ FlocculationCall
    \/ FlocculationChamber
    \/ FlocculationReturn
    \/ SedimentationStage
    \/ CompileResults
    \/ AddCoagulantCall
    \/ SedimentationCall
    \/ PopulationBalanceCall

Spec == Init /\ [][Next]_vars

----------------------------------------------------------------------------
(* Properties                                                              *)

\* the last column of a chamber's sol.y
FinalColumn(record) == record.distribution[Len(record.distribution)]

\* the dose of the latest call has been applied to the chemistry state
DoseApplied ==
    \/ last.op = "add_coagulant"
    \/ last.op = "run_simulation" /\ pc # "rapid_mix"

\* C1: run_simulation runs rapid mix, flocculation and sedimentation in that
\* order, each once; flocculation starts after rapid mix returned and receives
\* the distribution rapid mix returned, sedimentation starts after flocculation
\* returned and receives the distribution flocculation returned.
C1_StagesInOrder ==
    LET order == <<"rapid_mix", "flocculation", "sedimentation">>
    IN  /\ Len(trace) <= 3
        /\ \A i \in 1..Len(trace) : trace[i].stage = order[i]
        /\ \A i \in 2..Len(trace) :
             trace[i].input = trace[i - 1].output /\ trace[i].input # "None"
        /\ pc = "flocculation" => Len(trace) = 1
        /\ pc = "chamber" => Len(trace) = 2 /\ trace[2].output = "None"
        /\ pc = "sedimentation" => Len(trace) = 2 /\ trace[2].output # "None"
        /\ pc = "compile" => Len(trace) = 3

\* a run has gone through its three stages on a two-chamber plant
C1_Witness ==
    /\ pc = "compile"
    /\ Len(trace) = 3
    /\ trace[2].input = "new_particles"
    /\ trace[3].input = "new_particles"
    /\ flocculation[1].chambers = 2

\* C2: Flocculation.process with N >= 1 chambers appends one record per
\* chamber, numbered 1..N in order; chamber 1 starts from the input
\* distribution, chamber k > 1 from the final concentrations of chamber k - 1;
\* the returned distribution is the final state of chamber N and the returned
\* list has exactly N records.
C2_ChambersInSequence ==
    /\ \A k \in 1..Len(floc_results) : floc_results[k].chamber = k
    /\ \A k \in 2..Len(floc_results) :
         floc_results[k].distribution[1] = FinalColumn(floc_results[k - 1])
    /\ (last.op = "run_simulation" /\ Len(floc_results) >= 1) =>
         floc_results[1].distribution[1] =
            rapid_mix_process(last.water[1], heap["self.particles"],
                              coagulant_dose).new_particles.concentrations
    /\ pc = "chamber" => Len(floc_results) = chamber
    /\ (pc \in {"sedimentation", "compile"} /\ flocculation[1].chambers >= 1) =>
         /\ Len(floc_results) = flocculation[1].chambers
         /\ heap[particles_after_floc].concentrations =
               FinalColumn(floc_results[Len(floc_results)])

\* two chambers were integrated and both changed the concentrations
C2_Witness ==
    /\ pc = "sedimentation"
    /\ Len(floc_results) = 2
    /\ solver = <<"converged", "converged">>
    /\ FinalColumn(floc_results[1]) # floc_results[1].distribution[1]
    /\ FinalColumn(floc_results[2]) # floc_results[2].distribution[1]

\* C3: when the integration of a chamber does not converge, Flocculation.process
\* raises a computation error for that chamber: no later chamber is
\* integrated, sedimentation is not run and no record is returned.
C3_NonConvergenceSurfaces ==
    (\E k \in 1..Len(solver) : solver[k] # "converged") =>
        /\ pc = "idle"
        /\ raised = "ComputationError"
        /\ solver[Len(solver)] # "converged"
        /\ \A k \in 1..(Len(solver) - 1) : solver[k] = "converged"

\* C4: a negative coagulant dose is rejected with a validation error and the
\* pH and alkalinity are left as they were.
C4_NegativeDoseRejected ==
    (DoseApplied /\ RLt(last.dose, RInt(0))) =>
        /\ raised = "ValueError"
        /\ water_props = last.water

\* C5: a zero or negative chamber count is rejected with a validation error;
\* Flocculation.process never returns its input un-integrated with an empty
\* result list.
C5_ChamberCountRejected ==
    /\ flocculation # <<>> => flocculation[1].chambers >= 1
    /\ raised # "ZeroDivisionError"
    /\ ~(pc = "sedimentation" /\ floc_results = <<>>)

\* Sedimentation.process has run and its argument is recorded in last
SedimentationRan == sed_results # <<>> /\ last.particles # NoDistribution

\* non-negative concentrations with positive total mass, floc density above
\* the water density, positive tank height and overflow rate
ValidSedimentationInput ==
    /\ \A i \in 1..Len(last.particles.concentrations) :
         RLe(RInt(0), last.particles.concentrations[i])
    /\ FLt(FInt(0), FTrapz(FSeq(last.particles.concentrations),
                           FSeq(last.particles.sizes)))
    /\ RLt(water_props[1].density, last.floc_density)
    /\ sedimentation[1].height > 0
    /\ sedimentation[1].overflow_rate > 0

InPercentRange(x) == RLe(RInt(0), x) /\ RLe(x, RInt(100))

\* C6: for every valid input the removal efficiency returned by
\* Sedimentation.process, and the final_efficiency of a run built on it, lies
\* in [0, 100].
C6_EfficiencyBounds ==
    (SedimentationRan /\ ValidSedimentationInput) =>
        /\ InPercentRange(sed_results[1].removal_efficiency)
        /\ (pc = "idle" /\ last.op = "run_simulation" /\ raised = "") =>
              InPercentRange(results[1].final_efficiency)

\* a valid distribution went through sedimentation and part of it settled
C6_Witness ==
    /\ SedimentationRan
    /\ ValidSedimentationInput
    /\ RLt(RInt(0), sed_results[1].removal_efficiency)
    /\ RLt(sed_results[1].removal_efficiency, RInt(100))

\* C7: an all-zero concentration vector entering Sedimentation.process gives a
\* removal efficiency of exactly 0, a number.
C7_ZeroMassZeroEfficiency ==
    (/\ SedimentationRan
     /\ \A i \in 1..Len(last.particles.concentrations) :
          last.particles.concentrations[i] = RInt(0)) =>
        sed_results[1].removal_efficiency = RInt(0)

\* the step applies a dose to the chemistry state
DosingStep ==
    \/ pc = "rapid_mix" /\ pc' = "flocculation"
    \/ pc = "idle" /\ last'.op = "add_coagulant" /\ calls' = calls + 1

\* the dose a dosing step applies
StepDose == IF pc = "rapid_mix" THEN coagulant_dose ELSE last'.dose

\* C8: a dose >= 0 applied to a state with alkalinity >= 0 and pH >= 4 leaves
\* alkalinity >= 0 and pH >= 4, so every sequence of such doses does.
C8_FloorsKept ==
    [][(/\ DosingStep
        /\ RLe(RInt(0), StepDose)
        /\ RLe(RInt(0), water_props[1].alkalinity)
        /\ RLe(RInt(4), water_props[1].pH)) =>
           /\ RLe(RInt(0), water_props'[1].alkalinity)
           /\ RLe(RInt(4), water_props'[1].pH)]_vars

\* a second positive dose was applied to a state already at the alkalinity
\* floor, and both floors hold
C8_Witness ==
    /\ calls = 2
    /\ last.op = "add_coagulant"
    /\ RLt(RInt(0), last.dose)
    /\ last.water[1].alkalinity = RInt(0)
    /\ water_props[1].alkalinity = RInt(0)
    /\ water_props[1].pH = RInt(4)

\* C9: after every application of a dose >= 0 the pH lies in [4, 9].
C9_pHWithinRange ==
    (DoseApplied /\ RLe(RInt(0), last.dose)) =>
        /\ RLe(RInt(4), water_props[1].pH)
        /\ RLe(water_props[1].pH, RInt(9))

\* C10: RapidMixing.process with dose 0 leaves pH and alkalinity unchanged,
\* uses a charge-neutralization factor of 0 and returns bin centres and
\* concentrations equal to those of its input.
C10_ZeroDoseIdentity ==
    (pc = "flocculation" /\ coagulant_dose = RInt(0)) =>
        /\ water_props = last.water
        /\ charge_neutralization(coagulant_dose) = RInt(0)
        /\ heap[particles_after_mix].sizes = heap[RapidMixArgument].sizes
        /\ heap[particles_after_mix].concentrations =
              heap[RapidMixArgument].concentrations

\* run_simulation has returned its record and nothing was called since
RunReturned ==
    pc = "idle" /\ last.op = "run_simulation" /\ raised = "" /\ results # <<>>

\* the distribution RapidMixing.process returned in the latest run, as it was
\* when it was returned
RapidMixOutput ==
    rapid_mix_process(last.water[1], heap["self.particles"], last.dose).new_particles

\* C11: in the record run_simulation returns, 'initial' holds the pH and
\* alkalinity the chemistry state had before the dose was applied and
\* 'after_coagulation' the values after it; a dose that consumes alkalinity
\* makes the recorded after_coagulation alkalinity strictly lower than the
\* recorded initial one.
C11_InitialSnapshot ==
    RunReturned =>
        /\ results[1].initial.pH = last.water[1].pH
        /\ results[1].initial.alkalinity = last.water[1].alkalinity
        /\ results[1].after_coagulation.pH = water_props[1].pH
        /\ results[1].after_coagulation.alkalinity = water_props[1].alkalinity
        /\ (RLt(RInt(0), last.dose) /\ RLt(RInt(0), last.water[1].alkalinity)) =>
              RLt(results[1].after_coagulation.alkalinity, results[1].initial.alkalinity)

\* C12: the mean particle size recorded under 'after_coagulation' is the mean
\* size of the distribution as it left RapidMixing.process; the concentrations
\* the flocculation chambers write do not alter it.
C12_AfterCoagulationMeanSize ==
    RunReturned =>
        results[1].after_coagulation.mean_particle_size = mean_size(RapidMixOutput)

\* run_simulation is inside one of its stages
InStage == pc \in {"rapid_mix", "flocculation", "chamber", "sedimentation"}

\* C13: when a stage raises, run_simulation ends with that error: no later
\* stage is executed, no stage result is substituted and self.results is not
\* replaced.
C13_ErrorsPropagate ==
    [][(InStage /\ raised' # "") =>
          /\ pc' = "idle"
          /\ results' = results
          /\ sed_results' = sed_results
          /\ Len(trace') <= Len(trace)]_vars

\* a second run raised in flocculation and the record of the first run is
\* still the one held in self.results
C13_Witness ==
    /\ pc = "idle"
    /\ calls = 2
    /\ last.op = "run_simulation"
    /\ raised = "TypeError"
    /\ results # <<>>
    /\ sed_results = <<>>

\* C14: in every record of run_simulation, final_efficiency is the
\* removal_efficiency of the record's sedimentation result.
C14_FinalEfficiency ==
    results # <<>> =>
        results[1].final_efficiency = results[1].sedimentation.removal_efficiency

\* a run returned a record with a positive, finite efficiency
C14_Witness ==
    /\ RunReturned
    /\ IsFinite(results[1].final_efficiency)
    /\ RLt(RInt(0), results[1].final_efficiency)

\* |a|
FAbs(a) == IF a.m < 0 THEN FNeg(a) ELSE a

\* the trapezoidal integral over the size bins of an array of rates
RateIntegral(rates) == FTrapz(rates, FSeq(last.particles.sizes))

\* C15: with the breakage rate at zero, the right-hand side of the population
\* balance conserves total mass: for a non-negative concentration vector the
\* trapezoidal integral of dn/dt over the size bins is zero, up to a tolerance
\* (one hundredth of the integral of |dn/dt|).
C15_AggregationConservesMass ==
    (/\ last.op = "population_balance"
     /\ last.G = 0
     /\ \A i \in 1..NBins : RLe(RInt(0), last.particles.concentrations[i])) =>
        ~FLt(FDiv(RateIntegral([i \in 1..NBins |-> FAbs(dndt_returned[i])]), FInt(100)),
             FAbs(RateIntegral(dndt_returned)))

\* RapidMixing.process has just returned
RapidMixReturned == pc = "flocculation"

\* 1 + 0.1 * min(1, dose / 0.05)
ScaleFactor(dose) ==
    RAdd(RInt(1), RMul(R(1, 10), PyMin(RInt(1), RDiv(dose, R(1, 20)))))

\* C16: for an input of positive total mass and a dose >= 0, every bin centre
\* RapidMixing.process returns is the input bin centre times
\* 1 + 0.1 * min(1, dose / 0.05), and the total mass of the returned
\* distribution over its own bins is the total mass of the input.
C16_RapidMixScaling ==
    LET input == heap[RapidMixArgument]
        output == heap[particles_after_mix]
    IN  (/\ RapidMixReturned
         /\ RLe(RInt(0), coagulant_dose)
         /\ RLt(RInt(0), Trapz(input.concentrations, input.sizes))) =>
           /\ \A i \in 1..NBins :
                output.sizes[i] = RMul(input.sizes[i], ScaleFactor(coagulant_dose))
           /\ Trapz(output.concentrations, output.sizes) =
                 Trapz(input.concentrations, input.sizes)

\* rapid mix returned for a saturating dose on a distribution with mass
C16_Witness ==
    /\ RapidMixReturned
    /\ coagulant_dose = RInt(5)
    /\ heap[particles_after_mix].sizes[1] = RInt(11)
    /\ Trapz(heap[particles_after_mix].concentrations,
             heap[particles_after_mix].sizes) = RInt(50)

\* C17: during a run the chemistry state is changed only by the dose:
\* flocculation, sedimentation and the compilation of the record leave the
\* whole state unchanged, and a dose leaves temperature, density and
\* viscosity unchanged.
C17_ChemistryFrame ==
    [][/\ pc \in {"flocculation", "chamber", "sedimentation", "compile"} =>
            water_props' = water_props
       /\ DosingStep =>
            /\ water_props'[1].temperature = water_props[1].temperature
            /\ water_props'[1].density = water_props[1].density
            /\ water_props'[1].viscosity = water_props[1].viscosity]_vars

\* a dose changed the alkalinity and two chambers and sedimentation ran on
\* the changed state
C17_Witness ==
    /\ pc = "compile"
    /\ Len(floc_results) = 2
    /\ water_props[1].alkalinity # last.water[1].alkalinity
    /\ water_props[1].density = last.water[1].density

\* every entry of an array is a number >= 0
NonNegative(array) == \A i \in 1..Len(array) : RLe(RInt(0), array[i])

\* C18: in a run started from a non-negative distribution, after rapid mix,
\* after each flocculation chamber and after sedimentation the sizes and the
\* concentrations have the length N of the input and every concentration is
\* >= 0.
C18_NonNegativeDistributions ==
    (/\ last.op = "run_simulation"
     /\ pc \in {"flocculation", "chamber", "sedimentation", "compile"}
     /\ NonNegative(heap["self.particles"].concentrations)) =>
        /\ Len(heap[particles_after_mix].sizes) = NBins
        /\ Len(heap[particles_after_mix].concentrations) = NBins
        /\ NonNegative(heap[particles_after_mix].concentrations)
        /\ \A k \in 1..Len(floc_results) :
             /\ Len(FinalColumn(floc_results[k])) = NBins
             /\ NonNegative(FinalColumn(floc_results[k]))
        /\ pc = "compile" =>
             /\ Len(sed_results[1].size_distribution) = NBins
             /\ NonNegative(sed_results[1].size_distribution)

\* C19: run_simulation never modifies self.particles: rapid mix returns a
\* distinct object and no later stage changes a bin centre or a concentration
\* of the initial distribution.
C19_InitialDistributionKept ==
    [][pc # "new" =>
          /\ heap'["self.particles"] = heap["self.particles"]
          /\ particles_after_mix' # "self.particles"
          /\ \A i \in 1..Len(heap[NewParticles].sizes) :
               pc # "rapid_mix" => heap'[NewParticles].sizes[i] = heap[NewParticles].sizes[i]
      ]_vars

\* a run went through flocculation, which changed the concentrations of the
\* distribution it was given, and self.particles still holds the normalised
\* default
C19_Witness ==
    /\ RunReturned
    /\ solver = <<"converged">>
    /\ heap["self.particles"].concentrations =
          normalize(DefaultSizes, lognormal_distribution, RInt(50))
    /\ heap[NewParticles].concentrations # RapidMixOutput.concentrations

\* C20: every chamber is integrated over [0, total_time / chambers] with
\* G = G_avg, so the spans of the N chambers add up to total_time and twice
\* the chambers means half the span.
C20_ChamberSpans ==
    flocculation # <<>> =>
        LET floc == flocculation[1]
            span == R(floc.total_time, floc.chambers)
        IN  /\ \A k \in 1..Len(floc_results) :
                 /\ floc_results[k].time = <<RInt(0), span>>
                 /\ (last.op = "run_simulation" /\ solver[k] = "converged") =>
                       FinalColumn(floc_results[k]) =
                          integrate(floc_results[k].distribution[1],
                                    heap[NewParticles].sizes, FInt(floc.G_avg),
                                    water_props[1], span)
            /\ (pc \in {"sedimentation", "compile"} /\ floc.chambers >= 1) =>
                 SumSeq([k \in 1..Len(floc_results) |-> floc_results[k].time[2]]) =
                    RInt(floc.total_time)

\* two chambers of 900 s each were integrated
C20_Witness ==
    /\ pc = "sedimentation"
    /\ solver = <<"converged", "converged">>
    /\ floc_results[1].time = <<RInt(0), RInt(900)>>
    /\ floc_results[2].time = <<RInt(0), RInt(900)>>

\* a configuration setup_system accepted with at least one chamber, and a dose >= 0
ValidRun ==
    /\ last.op = "run_simulation"
    /\ flocculation # <<>>
    /\ flocculation[1].chambers >= 1
    /\ RLe(RInt(0), last.dose)

ResultKeys ==
    {"initial", "after_coagulation", "flocculation", "sedimentation", "final_efficiency"}

----------------------------------------------------------------------------
(* PilotPlantSimulation (pilot_plant_simulation.py)                        *)

\* PILOT_OPERATION['flow_rate_m3h'] = 1.62
flow_rate_m3h == R(81, 50)

\* PilotPlantSimulation() after setup_pilot_system() with its default arguments:
\* water at pH 7.2 and alkalinity 100, self.coagulant_dose = 0.025
PilotPlantSimulation ==
    [water_props |-> WaterProperties(20, R(36, 5), RInt(100), RInt(50)),
     coagulant_dose |-> R(1, 40),
     results |-> <<>>]

\* _calculate_pilot_performance: the consumption figures; dose is the argument
\* of run_pilot_experiment, which the method never receives
consumption(sim, dose) ==
    [coagulant_g_per_day |-> RMul(RMul(sim.coagulant_dose, flow_rate_m3h), RInt(24)),
     coagulant_g_per_m3 |-> sim.coagulant_dose]

\* the record run_pilot_experiment returns, built once the stages have run:
\* run_simulation reads 'initial' and 'after_coagulation' from self.water_props as
\* it is at that moment; the entries for the stages, which the game does not
\* read, are left out
pilot_record(sim, dose) ==
    [initial |-> [pH |-> sim.water_props.pH,
                  alkalinity |-> sim.water_props.alkalinity,
                  turbidity |-> sim.water_props.turbidity],
     after_coagulation |-> [pH |-> sim.water_props.pH,
                            alkalinity |-> sim.water_props.alkalinity],
     pilot_info |-> [coagulant_dose |-> dose],
     pilot_performance |-> [consumption |-> consumption(sim, dose)]]

----------------------------------------------------------------------------
(* PlantDataLogger (plant_graphs.py)                                       *)

\* self.max_points (200 in the source), scaled down
max_points == 2

\* self.log_interval, seconds
log_interval == 2

Series ==
    {"timestamps", "sedimentation_velocity", "model_efficiency", "turbidity_level",
     "color_level", "flow_rate", "coagulant_dose", "flocculation_G",
     "sedimentation_efficiency", "pH_level", "temperature"}

\* PlantDataLogger.__init__
PlantDataLogger ==
    [data_history |-> [key \in Series |-> <<>>],
     logging_active |-> FALSE,
     last_log_time |-> 0]

\* start_logging / stop_logging
start_logging(logger) == [logger EXCEPT !.logging_active = TRUE]

stop_logging(logger) == [logger EXCEPT !.logging_active = FALSE]

\* s[-n:]
LastN(s, n) == IF Len(s) > n THEN SubSeq(s, Len(s) - n + 1, Len(s)) ELSE s

\* a trim that keeps the first max_points entries
keep_oldest(s) == IF Len(s) > max_points THEN SubSeq(s, 1, max_points) ELSE s

\* data_history[key] = data_history[key][-max_points:] when it is longer
keep_latest(s) == LastN(s, max_points)

\* the value log_simulation_data appends to a series; the two series with a
\* random factor and the two efficiencies are represented by the time of the
\* record
sample(key, current_time, simulation_data, control_panel_data) ==
    IF key = "turbidity_level" THEN simulation_data.turbidity_out
    ELSE IF key = "flow_rate" THEN control_panel_data.flow_rate
    ELSE IF key = "coagulant_dose" THEN control_panel_data.coagulant_dose
    ELSE IF key = "pH_level" THEN control_panel_data.pH
    ELSE IF key = "temperature" THEN control_panel_data.temperature
    ELSE current_time

\* log_simulation_data, should_log included: the logger after the call
log_simulation_data(logger, current_time, simulation_data, control_panel_data) ==
    IF ~logger.logging_active \/ current_time - logger.last_log_time < log_interval
      THEN logger
      ELSE [logger EXCEPT
              !.last_log_time = current_time,
              !.data_history =
                  [key \in Series |->
                      keep_latest(Append(logger.data_history[key],
                                         sample(key, current_time, simulation_data,
                                                control_panel_data)))]]

----------------------------------------------------------------------------
(* ControlPanel and WaterTreatmentGame (game_visualization.py)             *)

MaxThreads == 2     \* background threads started in a behaviour
MaxTime == 6        \* the clock stops here
MaxResets == 1      \* reset_simulation handled in a behaviour
MaxEvents == 3      \* button and slider events handled in a behaviour

TankNames == {"rapid_mix", "flocculation", "sedimentation"}

\* ControlPanel.__init__
ControlPanel ==
    [coagulant_dose |-> R(1, 40),
     flow_rate |-> R(9, 20),
     running |-> FALSE,
     simulation_speed |-> 1,
     initial_pH |-> R(15, 2),
     initial_turbidity |-> RInt(50),
     water_temperature |-> RInt(20),
     show_config |-> FALSE,
     show_advanced_params |-> FALSE]

\* the buttons of create_controls and their actions
ButtonAction ==
    [start_stop |-> "toggle_simulation", pause |-> "pause_simulation",
     reset |-> "reset_simulation", config |-> "toggle_config",
     advanced |-> "toggle_advanced"]

\* the values a click can set a slider to (each within the slider's range)
SliderValues ==
    [coagulant_dose |-> {R(1, 40), R(3, 50)},
     simulation_speed |-> {1, 50},
     initial_turbidity |-> {RInt(50), RInt(10)}]

\* ControlPanel.handle_event (the second definition, which replaces the first)
\* for a click on a button: the first loop over self.buttons returns the
\* button's action, so the block after the sliders, which would toggle a panel
\* and close the other one, is never reached
handle_event(panel, button) == [action |-> ButtonAction[button], panel |-> panel]

\* the state a tank's water is given at construction and at reset
initial_state(panel) ==
    [turbidity |-> FofR(panel.initial_turbidity),
     pH |-> FofR(panel.initial_pH),
     particles_removed |-> FInt(0)]

\* seconds a game-loop iteration can take (clock.tick)
FrameTimes == {1, 2}

\* random.uniform(-0.02, 0.02)
Fluctuations == {RInt(0)}

\* 12.2 + 9.7 + 9.7 litres
total_volume_liters == R(158, 5)

eff_rapid_mix == R(1, 50)

\* calculate_flocculation_efficiency and calculate_sedimentation_efficiency clamp
\* their results into [0.20, 0.50] and [0.50, 0.85]; the plant's design values
\* stand for them
eff_flocculation == R(37, 100)

eff_sedimentation == R(17, 25)

\* an update that adds the increment and does not clamp
advance_unclamped(progress, increment) == RAdd(progress, increment)

\* self.simulation_progress += progress_increment, then the clamp to 1.0
advance(progress, increment) ==
    IF RLe(RInt(1), RAdd(progress, increment)) THEN RInt(1)
    ELSE RAdd(progress, increment)

\* the part of update_progressive_simulation that rewrites self.water_state and
\* the tanks' efficiency, then update_tank_colors
update_water_state(ws, tk, progress, panel, final_pH, fluctuation) ==
    LET T0 == FofR(panel.initial_turbidity)
        P0 == FofR(panel.initial_pH)
        Pf == FofR(final_pH)
        fl == FofR(fluctuation)
        p == FofR(progress)
        zero == FInt(0)
        one == FInt(1)
        hundred == FInt(100)
        E1 == FofR(eff_rapid_mix)
        E2 == FofR(eff_flocculation)
        E3 == FofR(eff_sedimentation)
        drop == FSub(P0, Pf)
        in_rm == RLt(progress, R(2, 5))
        in_floc == ~in_rm /\ RLt(progress, R(4, 5))
        in_sed == ~RLt(progress, R(4, 5))
        removal(entering, leaving) ==
            FMul(FDiv(FSub(entering, leaving), entering), hundred)
        progress_rm == FPyMin(one, FDiv(p, FofR(R(2, 5))))
        rm_pH ==
            IF in_rm
              THEN FAdd(FSub(P0, FMul(FMul(drop, progress_rm), FofR(R(4, 5)))),
                        FMul(fl, FofR(R(1, 10))))
              ELSE FAdd(FSub(P0, FMul(drop, FofR(R(4, 5)))), FMul(fl, FofR(R(1, 10))))
        rm_turb ==
            FMul(FMul(T0, FSub(one, IF in_rm THEN FMul(E1, progress_rm) ELSE E1)),
                 FAdd(one, fl))
        rm_eff ==
            IF in_rm THEN FMul(FMul(E1, hundred), progress_rm) ELSE FMul(E1, hundred)
        progress_floc == FDiv(FSub(p, FofR(R(2, 5))), FofR(R(2, 5)))
        fl_turb ==
            IF in_floc
              THEN FMul(FMul(rm_turb, FSub(one, FMul(E2, progress_floc))),
                        FAdd(one, FMul(fl, FofR(R(1, 2)))))
            ELSE IF in_sed
              THEN FMul(FMul(rm_turb, FSub(one, E2)), FAdd(one, FMul(fl, FofR(R(3, 10)))))
            ELSE ws.flocculation.turbidity
        fl_pH ==
            IF in_floc
              THEN FAdd(FSub(rm_pH, FMul(FMul(drop, FofR(R(1, 5))), progress_floc)),
                        FMul(fl, FofR(R(1, 20))))
            ELSE IF in_sed THEN FAdd(Pf, FMul(fl, FofR(R(3, 100))))
            ELSE ws.flocculation.pH
        fl_eff ==
            IF in_floc
              THEN IF FLt(zero, rm_turb)
                     THEN FPyMax(zero, FPyMin(FInt(40), removal(rm_turb, fl_turb)))
                     ELSE FMul(FMul(E2, hundred), progress_floc)
            ELSE IF in_sed
              THEN IF FLt(zero, rm_turb) THEN removal(rm_turb, fl_turb)
                   ELSE FMul(E2, hundred)
            ELSE tk.flocculation.efficiency
        progress_sed == FDiv(FSub(p, FofR(R(4, 5))), FofR(R(1, 5)))
        sed_turb ==
            IF in_sed
              THEN FPyMax(FofR(R(1, 10)),
                          FMul(FMul(fl_turb, FSub(one, FMul(E3, progress_sed))),
                               FAdd(one, FMul(fl, FofR(R(1, 10))))))
              ELSE fl_turb
        sed_pH == IF in_sed THEN FAdd(Pf, FMul(fl, FofR(R(1, 50)))) ELSE fl_pH
        sed_eff ==
            IF in_sed
              THEN IF FLt(zero, fl_turb)
                     THEN FPyMin(FInt(75), FPyMax(zero, removal(fl_turb, sed_turb)))
                     ELSE FMul(E3, hundred)
              ELSE tk.sedimentation.efficiency
    IN  [water_state |->
            [rapid_mix |-> [ws.rapid_mix EXCEPT !.pH = rm_pH, !.turbidity = rm_turb],
             flocculation |-> [ws.flocculation EXCEPT !.pH = fl_pH, !.turbidity = fl_turb],
             sedimentation |->
                [ws.sedimentation EXCEPT !.pH = sed_pH, !.turbidity = sed_turb]],
         tanks |->
            [rapid_mix |-> [efficiency |-> rm_eff, current_turbidity |-> <<rm_turb>>],
             flocculation |-> [efficiency |-> fl_eff, current_turbidity |-> <<fl_turb>>],
             sedimentation |->
                [efficiency |-> sed_eff, current_turbidity |-> <<sed_turb>>]]]

MaxParticles == 3   \* particles kept on screen

\* a thread just started on run_scientific_simulation
NewThread == [at |-> "started", dose |-> RInt(0), epoch |-> resets,
              after_dose |-> <<>>, record |-> <<>>]

\* WaterTreatmentGame.__init__; the simulation core of the first part is not
\* driven in this specification (the pilot plant below is the game's own object)
GameInit ==
    /\ HAS_PYEQL = FALSE
    /\ NewSimulation
    /\ control_panel = ControlPanel
    /\ simulation_running = FALSE
    /\ simulation_results = <<>>
    /\ simulation_progress = RInt(0)
    /\ simulation_time = 0
    /\ game_particles = 0
    /\ water_state = [t \in TankNames |-> initial_state(ControlPanel)]
    /\ tanks = [t \in TankNames |-> [efficiency |-> FInt(0), current_turbidity |-> <<>>]]
    /\ data_logger = PlantDataLogger
    /\ pilot_sim = PilotPlantSimulation
    /\ threads = <<>>
    /\ now = log_interval
    /\ handled = 0
    /\ resets = 0
    /\ published_by = 0

\* handle_events, action 'toggle_simulation': flip simulation_running; when it
\* becomes true start the logger and a daemon thread on run_scientific_simulation
ToggleSimulation ==
    /\ handle_event(control_panel, "start_stop").action = "toggle_simulation"
    /\ simulation_running' = ~simulation_running
    /\ control_panel' = [control_panel EXCEPT !.running = simulation_running']
    /\ IF simulation_running'
         THEN /\ Len(threads) < MaxThreads
              /\ data_logger' = start_logging(data_logger)
              /\ threads' = Append(threads, NewThread)
         ELSE UNCHANGED <<data_logger, threads>>
    /\ handled < MaxEvents
    /\ handled' = handled + 1
    /\ UNCHANGED <<simulation_results, simulation_progress, simulation_time,
                   game_particles, water_state, tanks, pilot_sim, now, resets,
                   published_by>>
    /\ UNCHANGED core_vars

\* handle_events, action 'pause_simulation'
PauseSimulation ==
    /\ handle_event(control_panel, "pause").action = "pause_simulation"
    /\ simulation_running' = FALSE
    /\ control_panel' = [control_panel EXCEPT !.running = FALSE]
    /\ data_logger' = stop_logging(data_logger)
    /\ handled < MaxEvents
    /\ handled' = handled + 1
    /\ UNCHANGED <<simulation_results, simulation_progress, simulation_time,
                   game_particles, water_state, tanks, pilot_sim, threads, now, resets,
                   published_by>>
    /\ UNCHANGED core_vars

\* a reset that keeps the logger it finds, stopped
reset_logger_kept(logger) == stop_logging(logger)

\* stop_logging(), then self.data_logger = PlantDataLogger()
reset_logger(logger) == PlantDataLogger

\* handle_events, action 'reset_simulation'
ResetSimulation ==
    /\ handle_event(control_panel, "reset").action = "reset_simulation"
    /\ resets < MaxResets
    /\ simulation_running' = FALSE
    /\ control_panel' = [control_panel EXCEPT !.running = FALSE]
    /\ game_particles' = 0
    /\ simulation_time' = 0
    /\ simulation_results' = <<>>
    /\ simulation_progress' = RInt(0)
    /\ data_logger' = reset_logger(data_logger)
    /\ water_state' = [t \in TankNames |-> initial_state(control_panel)]
    /\ tanks' = [t \in TankNames |->
                   [efficiency |-> FInt(0),
                    current_turbidity |-> <<FofR(control_panel.initial_turbidity)>>]]
    /\ handled < MaxEvents
    /\ handled' = handled + 1
    /\ resets' = resets + 1
    /\ published_by' = 0
    /\ UNCHANGED <<pilot_sim, threads, now>>
    /\ UNCHANGED core_vars

\* handle_events, action 'toggle_config': the game flips show_config itself
ToggleConfig ==
    /\ handle_event(control_panel, "config").action = "toggle_config"
    /\ control_panel' =
         [handle_event(control_panel, "config").panel
             EXCEPT !.show_config = ~@]
    /\ handled < MaxEvents
    /\ handled' = handled + 1
    /\ UNCHANGED <<simulation_running, simulation_results, simulation_progress,
                   simulation_time, game_particles, water_state, tanks, data_logger,
                   pilot_sim, threads, now, resets, published_by>>
    /\ UNCHANGED core_vars

\* handle_events, action 'toggle_advanced'
ToggleAdvanced ==
    /\ handle_event(control_panel, "advanced").action = "toggle_advanced"
    /\ control_panel' =
         [handle_event(control_panel, "advanced").panel
             EXCEPT !.show_advanced_params = ~@]
    /\ handled < MaxEvents
    /\ handled' = handled + 1
    /\ UNCHANGED <<simulation_running, simulation_results, simulation_progress,
                   simulation_time, game_particles, water_state, tanks, data_logger,
                   pilot_sim, threads, now, resets, published_by>>
    /\ UNCHANGED core_vars

\* ControlPanel.handle_event for a click on a slider
SliderMoved ==
    /\ \E slider_name \in DOMAIN SliderValues :
         \E new_val \in SliderValues[slider_name] :
            /\ new_val # control_panel[slider_name]
            /\ control_panel' = [control_panel EXCEPT ![slider_name] = new_val]
    /\ handled < MaxEvents
    /\ handled' = handled + 1
    /\ UNCHANGED <<simulation_running, simulation_results, simulation_progress,
                   simulation_time, game_particles, water_state, tanks, data_logger,
                   pilot_sim, threads, now, resets, published_by>>
    /\ UNCHANGED core_vars

\* run_scientific_simulation on a background thread, first step: the argument
\* self.control_panel.coagulant_dose is read, run_pilot_experiment enters
\* run_simulation, and add_coagulant rewrites the water_props of the shared object
ThreadDose(i) ==
    /\ threads[i].at = "started"
    /\ LET dose == control_panel.coagulant_dose
           water == add_coagulant(pilot_sim.water_props, dose)
       IN  /\ pilot_sim' = [pilot_sim EXCEPT !.water_props = water]
           /\ threads' = [threads EXCEPT ![i].at = "dosed", ![i].dose = dose,
                                         ![i].after_dose = <<water>>]
    /\ UNCHANGED <<control_panel, simulation_running, simulation_results,
                   simulation_progress, simulation_time, game_particles, water_state,
                   tanks, data_logger, now, handled, resets, published_by>>
    /\ UNCHANGED core_vars

\* second step: the stages have run; run_simulation compiles self.results from
\* self.water_props and run_pilot_experiment adds pilot_info and pilot_performance
ThreadCompile(i) ==
    /\ threads[i].at = "dosed"
    /\ LET record == pilot_record(pilot_sim, threads[i].dose)
       IN  /\ pilot_sim' = [pilot_sim EXCEPT !.results = <<record>>]
           /\ threads' = [threads EXCEPT ![i].at = "returning",
                                         ![i].record = <<record>>]
    /\ UNCHANGED <<control_panel, simulation_running, simulation_results,
                   simulation_progress, simulation_time, game_particles, water_state,
                   tanks, data_logger, now, handled, resets, published_by>>
    /\ UNCHANGED core_vars

\* a stage raises: run_scientific_simulation catches the exception, prints it and
\* the thread ends without assigning anything
ThreadRaise(i) ==
    /\ threads[i].at = "dosed"
    /\ threads' = [threads EXCEPT ![i].at = "failed"]
    /\ UNCHANGED <<control_panel, simulation_running, simulation_results,
                   simulation_progress, simulation_time, game_particles, water_state,
                   tanks, data_logger, pilot_sim, now, handled, resets, published_by>>
    /\ UNCHANGED core_vars

\* last step: self.simulation_results = <the record run_pilot_experiment returned>
ThreadPublish(i) ==
    /\ threads[i].at = "returning"
    /\ simulation_results' = threads[i].record
    /\ published_by' = i
    /\ threads' = [threads EXCEPT ![i].at = "done"]
    /\ UNCHANGED <<control_panel, simulation_running, simulation_progress,
                   simulation_time, game_particles, water_state, tanks, data_logger,
                   pilot_sim, now, handled, resets>>
    /\ UNCHANGED core_vars

\* spawn_particles and update_particles: particles enter, some leave
spawn_particles(count, simulation_speed) ==
    LET n_particles == IF 3 * simulation_speed > 10 THEN 10 ELSE 3 * simulation_speed
    IN  IF count + n_particles > MaxParticles THEN MaxParticles ELSE count + n_particles

\* the arguments the game loop hands to log_simulation_data
simulation_data(ws) == [turbidity_out |-> ws.sedimentation.turbidity]

control_data(panel, ws) ==
    [flow_rate |-> panel.flow_rate,
     coagulant_dose |-> panel.coagulant_dose,
     pH |-> ws.sedimentation.pH,
     temperature |-> panel.water_temperature]

\* one iteration of WaterTreatmentGame.run after handle_events, dt seconds after
\* the previous one: advance simulation_time, update_progressive_simulation, log
\* the data, move the particles
Frame ==
    /\ \E dt \in FrameTimes, fluctuation \in Fluctuations :
         /\ now + dt <= MaxTime
         /\ now' = now + dt
         /\ IF simulation_running
              THEN LET accelerated_dt == dt * control_panel.simulation_speed
                       total_retention_time ==
                           RDiv(total_volume_liters, control_panel.flow_rate)
                       progress_increment ==
                           RDiv(RInt(accelerated_dt), total_retention_time)
                   IN  /\ simulation_time' = simulation_time + accelerated_dt
                       /\ game_particles' =
                            spawn_particles(game_particles, control_panel.simulation_speed)
                       /\ IF simulation_results # <<>>
                            THEN /\ simulation_progress' =
                                      advance(simulation_progress, progress_increment)
                                 /\ \E u \in {update_water_state(
                                                 water_state, tanks, simulation_progress',
                                                 control_panel,
                                                 simulation_results[1].after_coagulation.pH,
                                                 fluctuation)} :
                                      /\ water_state' = u.water_state
                                      /\ tanks' = u.tanks
                                      /\ data_logger' =
                                           log_simulation_data(
                                               data_logger, now',
                                               simulation_data(u.water_state),
                                               control_data(control_panel, u.water_state))
                            ELSE UNCHANGED <<simulation_progress, water_state, tanks,
                                             data_logger>>
              ELSE UNCHANGED <<simulation_time, game_particles, simulation_progress,
                               water_state, tanks, data_logger>>
    /\ UNCHANGED <<control_panel, simulation_running, simulation_results, pilot_sim,
                   threads, handled, resets, published_by>>
    /\ UNCHANGED core_vars

\* a caller other than the game loop invokes data_logger.log_simulation_data
LogSimulationData ==
    /\ data_logger' = log_simulation_data(data_logger, now, simulation_data(water_state),
                                          control_data(control_panel, water_state))
    /\ UNCHANGED <<control_panel, simulation_running, simulation_results,
                   simulation_progress, simulation_time, game_particles, water_state,
                   tanks, pilot_sim, threads, now, handled, resets, published_by>>
    /\ UNCHANGED core_vars

GameNext ==
    \/ ToggleSimulation
    \/ PauseSimulation
    \/ ResetSimulation
    \/ ToggleConfig
    \/ ToggleAdvanced
    \/ SliderMoved
    \/ Frame
    \/ LogSimulationData
    \/ \E i \in 1..Len(threads) : ThreadDose(i)
    \/ \E i \in 1..Len(threads) : ThreadCompile(i)
    \/ \E i \in 1..Len(threads) : ThreadRaise(i)
    \/ \E i \in 1..Len(threads) : ThreadPublish(i)

GameSpec == GameInit /\ [][GameNext]_vars

----------------------------------------------------------------------------
(* Properties of the game                                                  *)

\* the threads that are between their start and their end
InFlight == {i \in 1..Len(threads) : threads[i].at \in {"started", "dosed", "returning"}}

\* the threads that have written the shared water_props and not yet read it back
UsingWater == {i \in 1..Len(threads) : threads[i].at = "dosed"}

PilotKeys == {"initial", "after_coagulation", "pilot_info", "pilot_performance"}

\* C22: the pipeline run of the game executes on a background thread; whenever
\* simulation_results is not None it is the complete record of a finished run,
\* and no run in progress reads or writes state that another run is using
C22_RunsDoNotInterfere ==
    /\ simulation_results # <<>> =>
          /\ published_by \in 1..Len(threads)
          /\ threads[published_by].at = "done"
          /\ simulation_results = threads[published_by].record
          /\ DOMAIN simulation_results[1] = PilotKeys
    /\ Cardinality(UsingWater) <= 1

\* C23: whatever the sequence of start/stop toggles, pauses and resets, at most
\* one background run is in flight on the shared PilotPlantSimulation
C23_OneRunInFlight == Cardinality(InFlight) <= 1

\* C24: after a reset simulation_results stays None until a run started after
\* that reset completes; a run started before the reset never publishes after it
C24_NoStalePublication ==
    simulation_results # <<>> =>
        /\ published_by \in 1..Len(threads)
        /\ threads[published_by].epoch = resets

\* the state the game is constructed in, for the values now configured
InitialGameState ==
    /\ ~simulation_running
    /\ ~control_panel.running
    /\ simulation_progress = RInt(0)
    /\ simulation_time = 0
    /\ simulation_results = <<>>
    /\ game_particles = 0
    /\ \A t \in TankNames :
          /\ water_state[t].turbidity = FofR(control_panel.initial_turbidity)
          /\ water_state[t].pH = FofR(control_panel.initial_pH)
          /\ water_state[t].particles_removed = FInt(0)
          /\ tanks[t].efficiency = FInt(0)
    /\ \A key \in Series : data_logger.data_history[key] = <<>>
    /\ ~data_logger.logging_active

\* C25: handling 'reset_simulation' from any reachable state of the game yields
\* the initial state: not running, progress 0, time 0, no results, no particles,
\* every tank's water at the configured initial turbidity and pH with
\* particles_removed 0, every tank efficiency 0, and a fresh data logger with
\* empty history and logging inactive
C25_ResetYieldsInitialState == [][ResetSimulation => InitialGameState']_vars

\* a reset handled after a run had published and the sliders had been moved
C25_Witness ==
    /\ resets = 1
    /\ InitialGameState
    /\ control_panel.initial_turbidity = RInt(10)
    /\ Len(threads) = 1
    /\ threads[1].at = "done"
    /\ tanks["sedimentation"].current_turbidity = <<FInt(10)>>

ProgressInRange ==
    RLe(RInt(0), simulation_progress) /\ RLe(simulation_progress, RInt(1))

ProgressStep ==
    /\ simulation_progress' # simulation_progress =>
          \/ resets' = resets + 1 /\ simulation_progress' = RInt(0)
          \/ /\ simulation_running
             /\ simulation_results # <<>>
             /\ RLt(simulation_progress, simulation_progress')
    /\ (simulation_progress = RInt(1) /\ resets' = resets) =>
          simulation_progress' = RInt(1)

SeriesAligned ==
    \A key \in Series :
        /\ Len(data_logger.data_history[key]) =
               Len(data_logger.data_history["timestamps"])
        /\ Len(data_logger.data_history[key]) <= max_points

\* a step in which the logger took a record
LogStep ==
    (/\ resets' = resets
     /\ \/ data_logger'.data_history # data_logger.data_history
        \/ data_logger'.last_log_time # data_logger.last_log_time) =>
        /\ data_logger.logging_active
        /\ now' - data_logger.last_log_time >= log_interval
        /\ data_logger'.data_history["timestamps"] =
               LastN(Append(data_logger.data_history["timestamps"], now'), max_points)

\* C27: after any sequence of log_simulation_data calls all eleven series of
\* data_history have the same length, never above max_points, the oldest entry
\* being dropped first; a call made while logging is inactive, or less than
\* log_interval after the previous record, appends nothing
C27_HistoryBounded == []SeriesAligned /\ [][LogStep]_vars

\* the history is full and its oldest record has been dropped
C27_Witness ==
    /\ Len(data_logger.data_history["timestamps"]) = max_points
    /\ data_logger.data_history["timestamps"][1] >= log_interval + log_interval
    /\ data_logger.last_log_time = MaxTime

\* C28: the configuration panel and the advanced-parameters panel are mutually
\* exclusive: show_config and show_advanced_params are never both true
C28_PanelsExclusive ==
    ~(control_panel.show_config /\ control_panel.show_advanced_params)

\* what a single run on a freshly set up pilot plant reports for a dose
FreshRun(dose) == add_coagulant(PilotPlantSimulation.water_props, dose)

\* C29: the result of a run depends only on the configuration and the dose, not
\* on earlier runs: its after_coagulation pH and alkalinity are those of a
\* single run on a fresh system
C29_RunsIndependent ==
    simulation_results # <<>> =>
        LET record == simulation_results[1]
            fresh == FreshRun(record.pilot_info.coagulant_dose)
        IN  /\ record.after_coagulation.pH = fresh.pH
            /\ record.after_coagulation.alkalinity = fresh.alkalinity

\* C30: the pilot performance figures of run_pilot_experiment(coagulant_dose=d)
\* are computed from d: coagulant_g_per_day and coagulant_g_per_m3 correspond to
\* the dose recorded in pilot_info.coagulant_dose
C30_ConsumptionOfDose ==
    simulation_results # <<>> =>
        LET record == simulation_results[1]
            dose == record.pilot_info.coagulant_dose
        IN  /\ record.pilot_performance.consumption.coagulant_g_per_m3 = dose
            /\ record.pilot_performance.consumption.coagulant_g_per_day =
                   RMul(RMul(dose, flow_rate_m3h), RInt(24))


====
